---- MODULE Spec2Model ----
(***************************************************************************)
(* Eterna: rule-based energy advisor (Eterna.py) and Eterna 2.0            *)
(* (Eterna2.py).                                                           *)
(*                                                                         *)
(* Units.  Every usage value in the programs is round(x, 2), so kWh, kg,   *)
(* litres and AED are integers counting hundredths (2.5 kWh is 250).  A    *)
(* product of two such numbers counts ten-thousandths before it is rounded *)
(* back to hundredths.                                                     *)
(*                                                                         *)
(* Floating point.  The programs compute in binary doubles.  Away from an  *)
(* exact decimal tie the double result and the exact result agree; at an   *)
(* exact tie (x.xx5 for round(), a mean of exactly 2.8) the outcome        *)
(* depends on the binary representation of the operands, which integers do *)
(* not carry.  Rounding is therefore a set of possible outcomes            *)
(* (RoundOutcomes) and the mean comparison reads fpTie at a tie.           *)
(***************************************************************************)
EXTENDS Integers, Sequences, FiniteSets, TLC

VARIABLES
    app,             \* which script runs: "none", "Eterna" or "Eterna2"
    registered,      \* Eterna.py  st.session_state.registered
    user_prefs,      \* Eterna.py  st.session_state.user_prefs
    form,            \* Eterna.py  the onboarding form of the last script run
    learned_habits,  \* Eterna2.py EnergyAI.learned_habits (a dict)
    fpTie,           \* outcome of the double comparison mean > 2.8 at an exact tie
    op,              \* the operation that ran last
    usage,           \* usage snapshot handed to the last operation
    hour,            \* datetime.now().hour read by the last operation
    history,         \* history handed to detect_usage_patterns
    outcome,         \* "ok", or the exception the last operation raised
    suggestions,     \* list returned by the last suggestion call
    total_usage,     \* dashboard: sum of the usage values
    co2_kg,          \* dashboard: the CO2 metric
    water_l          \* dashboard: the water metric

vars == << app, registered, user_prefs, form, learned_habits, fpTie, op, usage, hour,
           history, outcome, suggestions, total_usage, co2_kg, water_l >>

(***************************************************************************)
(* Input domains                                                           *)
(***************************************************************************)
Categories == {"AC", "Lights", "Appliances"}

\* Values around the thresholds the rules compare against (2.5, 0.5, 0.7 kWh),
\* zero, and one negative value per category.
ACValues == {-100, 0, 250, 251}
LightsValues == {-10, 0, 50, 51}
AppliancesValues == {-10, 0, 70, 71}

CategoryValues(c) ==
    CASE c = "AC" -> ACValues
      [] c = "Lights" -> LightsValues
      [] c = "Appliances" -> AppliancesValues

\* A usage dict: any subset of the categories as keys (a missing key is a
\* malformed snapshot), any sampled value per key.
Usages ==
    UNION { { u \in [D -> ACValues \cup LightsValues \cup AppliancesValues] :
                \A c \in D : u[c] \in CategoryValues(c) } :
            D \in SUBSET Categories }

Valid(u) == DOMAIN u = Categories /\ \A c \in Categories : u[c] >= 0

Hours == 0 .. 23

Names == {"", "Ann"}
HomeSizes == {"2BHK", "Villa"}
WorkingHours == {8}
ACTemps == {20, 25, 26, 30}

DEFAULT_PREFS ==
    [name |-> "", home_size |-> "2BHK", working_hours |-> 8, ac_temp |-> 24,
     eco_mode |-> TRUE]

\* What the onboarding form holds after a script run: the button state and
\* the five widgets.
Forms ==
    [submitted : BOOLEAN, name : Names, home_size : HomeSizes,
     working_hours : WorkingHours, ac_temp : ACTemps, eco_mode : BOOLEAN]

NoForm ==
    [submitted |-> FALSE, name |-> "", home_size |-> "2BHK", working_hours |-> 8,
     ac_temp |-> 24, eco_mode |-> TRUE]

PrefsSet ==
    [name : Names, home_size : HomeSizes, working_hours : WorkingHours,
     ac_temp : ACTemps, eco_mode : BOOLEAN]

(***************************************************************************)
(* Python helpers                                                          *)
(***************************************************************************)
\* round(x, 2) / f"{x:.2f}" of the exact value n/den hundredths: the nearest
\* integer, and either neighbour at an exact tie.
RoundOutcomes(n, den) ==
    LET q == n \div den
        r == n % den
    IN  IF 2 * r < den THEN {q}
        ELSE IF 2 * r > den THEN {q + 1}
        ELSE {q, q + 1}

\* sum(usage.values())
SumValues(u) == u["AC"] + u["Lights"] + u["Appliances"]

\* d.get(k): the value, or a falsy None when the key is absent
DictGet(d, k) == IF k \in DOMAIN d THEN d[k] ELSE FALSE

EmptyDict == [k \in {} |-> TRUE]

\* A suggestion: the text, and the number interpolated into it (0 if none).
Msg(m, a) == [msg |-> m, arg |-> a]

TurnOffAC == "Turn off AC in unoccupied rooms"
IncreaseACTemp == "Try increasing AC temperature to"
DelayLaundry == "Delay laundry to off-peak hours"
EcoLighting == "Switch to eco-mode lighting in common areas"
SmartPlugs == "Consider smart plugs for idle electronics"
PeakDelay == "Peak hours! Delay appliances to save"
SmartThermostat == "AC Usage Pattern Detected: Consider smart thermostat"
UsageOptimal == "Your usage looks optimal!"

Ok(s) == [outcome |-> "ok", suggestions |-> s]
KeyError == [outcome |-> "KeyError", suggestions |-> << >>]

(***************************************************************************)
(* Eterna.py get_ai_suggestions                                            *)
(***************************************************************************)
\* Mutant: the AC threshold compared with >= instead of >.
ACRuleInclusive(u, prefs) ==
    IF u["AC"] >= 250
    THEN << Msg(TurnOffAC, 0) >> \o
         (IF prefs.ac_temp < 26
          THEN << Msg(IncreaseACTemp, prefs.ac_temp + 1) >>
          ELSE << >>)
    ELSE << >>

ACRule(u, prefs) ==
    IF u["AC"] > 250
    THEN << Msg(TurnOffAC, 0) >> \o
         (IF prefs.ac_temp < 26
          THEN << Msg(IncreaseACTemp, prefs.ac_temp + 1) >>
          ELSE << >>)
    ELSE << >>

InMorningWindow(h) == 8 <= h /\ h <= 11

TimeRule(u, h) ==
    IF InMorningWindow(h) /\ u["Appliances"] > 70
    THEN << Msg(DelayLaundry, 0) >>
    ELSE << >>

EcoRule(u, prefs) ==
    IF prefs.eco_mode /\ u["Lights"] > 50
    THEN << Msg(EcoLighting, 0) >>
    ELSE << >>

\* Mutant: the filler dropped.
GeneralRuleNever(s) == s

\* Mutant: the filler added only to an empty list.
GeneralRuleOnlyEmpty(s) ==
    IF Len(s) < 1 THEN s \o << Msg(SmartPlugs, 0) >> ELSE s

GeneralRule(s) ==
    IF Len(s) < 2
    THEN s \o << Msg(SmartPlugs, 0) >>
    ELSE s

\* The keys the body reads, in the order it reads them: "AC" always,
\* "Appliances" only inside the morning window (the `and` short-circuits),
\* "Lights" only with eco_mode on.
AiKeysRead(prefs, h) ==
    {"AC"} \cup (IF InMorningWindow(h) THEN {"Appliances"} ELSE {})
           \cup (IF prefs.eco_mode THEN {"Lights"} ELSE {})

get_ai_suggestions(u, prefs, h) ==
    IF ~(AiKeysRead(prefs, h) \subseteq DOMAIN u)
    THEN KeyError
    ELSE Ok(GeneralRule(ACRule(u, prefs) \o TimeRule(u, h) \o EcoRule(u, prefs)))

(***************************************************************************)
(* Eterna2.py EnergyAI                                                     *)
(***************************************************************************)
peak_hours == << 18, 22 >>

\* `now.hour in self.peak_hours`: membership in the tuple
InPeakHours(h) == \E i \in DOMAIN peak_hours : peak_hours[i] = h

\* energy_rates['peak'] - energy_rates['off_peak'], in hundredths of an AED
RateDelta == 65 - 30

\* round(current_usage['Appliances'] * rate delta, 2)
PeakSavings(u) == RoundOutcomes(u["Appliances"] * RateDelta, 100)

PeakRule(u, h, savings) ==
    IF InPeakHours(h) /\ u["Appliances"] > 70
    THEN << Msg(PeakDelay, savings) >>
    ELSE << >>

HabitRule(habits) ==
    IF DictGet(habits, "high_ac") = TRUE
    THEN << Msg(SmartThermostat, 0) >>
    ELSE << >>

\* Mutant: the `or` default dropped.
OrOptimalDropped(s) == s

\* `suggestions or [...]`
OrOptimal(s) == IF s = << >> THEN << Msg(UsageOptimal, 0) >> ELSE s

\* "Appliances" is read only when the hour is in peak_hours
SmartKeysRead(h) == IF InPeakHours(h) THEN {"Appliances"} ELSE {}

get_smart_suggestions(u, habits, h, savings) ==
    IF ~(SmartKeysRead(h) \subseteq DOMAIN u)
    THEN KeyError
    ELSE Ok(OrOptimal(PeakRule(u, h, savings) \o HabitRule(habits)))

(***************************************************************************)
(* Specification of the two suggestion functions: the inputs are drawn by  *)
(* Init, the actions apply the functions.                                  *)
(***************************************************************************)
HabitStates == { EmptyDict, [k \in {"high_ac"} |-> TRUE] }

\* The rules read only ac_temp and eco_mode of the preferences.
SuggestPrefs == { p \in PrefsSet : p.name = "Ann" /\ p.home_size = "2BHK" }

InitSuggest ==
    /\ app = "none"
    /\ registered = FALSE
    /\ user_prefs \in SuggestPrefs
    /\ form = NoForm
    /\ learned_habits \in HabitStates
    /\ fpTie = << >>
    /\ op = "init"
    /\ usage \in Usages
    /\ hour \in Hours
    /\ history = << >>
    /\ outcome = "ok"
    /\ suggestions = << >>
    /\ total_usage = 0
    /\ co2_kg = 0
    /\ water_l = 0

CallGetAiSuggestions ==
    LET r == get_ai_suggestions(usage, user_prefs, hour)
    IN  /\ op' = "get_ai_suggestions"
        /\ outcome' = r.outcome
        /\ suggestions' = r.suggestions
        /\ UNCHANGED << app, registered, user_prefs, form, learned_habits, fpTie, usage,
                        hour, history, total_usage, co2_kg, water_l >>

CallGetSmartSuggestions ==
    \E savings \in (IF "Appliances" \in DOMAIN usage THEN PeakSavings(usage) ELSE {0}) :
        LET r == get_smart_suggestions(usage, learned_habits, hour, savings)
        IN  /\ op' = "get_smart_suggestions"
            /\ outcome' = r.outcome
            /\ suggestions' = r.suggestions
            /\ UNCHANGED << app, registered, user_prefs, form, learned_habits, fpTie,
                            usage, hour, history, total_usage, co2_kg, water_l >>

NextSuggest == CallGetAiSuggestions \/ CallGetSmartSuggestions

SpecSuggest == InitSuggest /\ [][NextSuggest]_vars

(***************************************************************************)
(* Eterna2.py EnergyAI.detect_usage_patterns                               *)
(***************************************************************************)
MaxHistory == 4

\* History entries (the timestamp is display data and is left out).
HistEntries ==
    { [AC |-> 270, Lights |-> 60, Appliances |-> 55],
      [AC |-> 290, Lights |-> 70, Appliances |-> 71],
      [AC |-> 300, Lights |-> 65, Appliances |-> 120],
      [AC |-> 310, Lights |-> 90, Appliances |-> 70] }

Histories == UNION { [1 .. n -> HistEntries] : n \in 0 .. MaxHistory }

\* history[-3:] of a list with at least 3 entries
LastThree(h) == SubSeq(h, Len(h) - 2, Len(h))

ACSum(w) == w[1]["AC"] + w[2]["AC"] + w[3]["AC"]

ACOf(w) == << w[1]["AC"], w[2]["AC"], w[3]["AC"] >>

\* The windows whose exact mean is 2.8: there the double comparison can go
\* either way, the same way every time for the same window.
TieWindows ==
    { t \in { ACOf(w) : w \in [1 .. 3 -> HistEntries] } : t[1] + t[2] + t[3] = 840 }

\* np.mean([x['AC'] for x in history[-3:]]) > 2.8
MeanAbove(w, tie) ==
    \/ ACSum(w) > 840
    \/ ACSum(w) = 840 /\ tie[ACOf(w)]

\* Mutant: the flag assigned the comparison's value on every call.
detect_usage_patterns_overwrite(h, habits, tie) ==
    IF Len(h) > 3
    THEN [k \in DOMAIN habits \cup {"high_ac"} |->
             IF k = "high_ac" THEN MeanAbove(LastThree(h), tie) ELSE habits[k]]
    ELSE habits

detect_usage_patterns(h, habits, tie) ==
    IF Len(h) > 3
    THEN IF MeanAbove(LastThree(h), tie) /\ "high_ac" \notin DOMAIN habits
         THEN [k \in DOMAIN habits \cup {"high_ac"} |->
                  IF k = "high_ac" THEN TRUE ELSE habits[k]]
         ELSE habits
    ELSE habits

InitHabit ==
    /\ app = "none"
    /\ registered = FALSE
    /\ user_prefs = DEFAULT_PREFS
    /\ form = NoForm
    /\ learned_habits = EmptyDict
    /\ fpTie \in [TieWindows -> BOOLEAN]
    /\ op = "init"
    /\ usage = EmptyDict
    /\ hour = 0
    /\ history = << >>
    /\ outcome = "ok"
    /\ suggestions = << >>
    /\ total_usage = 0
    /\ co2_kg = 0
    /\ water_l = 0

DetectUsagePatterns ==
    \E h \in Histories :
        /\ op' = "detect_usage_patterns"
        /\ history' = h
        /\ learned_habits' = detect_usage_patterns(h, learned_habits, fpTie)
        /\ UNCHANGED << app, registered, user_prefs, form, fpTie, usage, hour, outcome,
                        suggestions, total_usage, co2_kg, water_l >>

NextHabit == DetectUsagePatterns

SpecHabit == InitHabit /\ [][NextHabit]_vars

(***************************************************************************)
(* Impact metrics of the two dashboards                                    *)
(***************************************************************************)
\* Mutant: the emission factor's digits swapped.
CarbonSavedSwapped(total) == RoundOutcomes(total * 24, 100)

\* Eterna.py: carbon_saved = round(total_usage * 0.42, 2)
CarbonSaved(total) == RoundOutcomes(total * 42, 100)

\* Eterna.py: f"{carbon_saved * 10} liters"
WaterFromCarbon(carbon) == carbon * 10

\* Eterna2.py: f"{total*0.42:.2f} kg"
Co2Formatted(total) == RoundOutcomes(total * 42, 100)

\* Eterna2.py: f"{total*4.2:.2f} L"
WaterFormatted(total) == RoundOutcomes(total * 420, 100)

(***************************************************************************)
(* Eterna.py: the Streamlit script, one action per script run              *)
(***************************************************************************)
\* Samples of round(random.uniform(lo, hi), 2) inside each range.
MockAC == {150, 300}
MockLights == {30, 60}
MockAppliances == {50, 95, 100}
MockAppliancesEvening == {75, 150}

\* `22 <= current_hour <= 6` holds for no hour, so the multiplier is 1.0 and
\* the AC and Lights ranges are the plain ones.
NightHour(h) == 22 <= h /\ h <= 6

generate_mock_usage(h) ==
    { [AC |-> a, Lights |-> l, Appliances |-> p] :
        a \in { x \in MockAC : ~NightHour(h) },
        l \in { x \in MockLights : ~NightHour(h) },
        p \in (IF 18 <= h /\ h <= 22 THEN MockAppliancesEvening ELSE MockAppliances) }

\* Mutant: the name not tested.
OnboardingAcceptsAnyName(f) == f.submitted

\* `if submitted and name:`
OnboardingAccepts(f) == f.submitted /\ f.name # ""

PrefsOfForm(f) ==
    [name |-> f.name, home_size |-> f.home_size, working_hours |-> f.working_hours,
     ac_temp |-> f.ac_temp, eco_mode |-> f.eco_mode]

\* The dashboard's values are locals of show_dashboard: a script run that
\* does not reach them leaves nothing of them on the page.
NoDashboard ==
    /\ usage' = EmptyDict
    /\ hour' = 0
    /\ outcome' = "ok"
    /\ suggestions' = << >>
    /\ total_usage' = 0
    /\ co2_kg' = 0
    /\ water_l' = 0

\* main() with registered false: show_onboarding()
ShowOnboarding ==
    /\ app = "Eterna"
    /\ ~registered
    /\ \E f \in Forms :
          /\ form' = f
          /\ IF OnboardingAccepts(f)
             THEN user_prefs' = PrefsOfForm(f) /\ registered' = TRUE
             ELSE UNCHANGED << user_prefs, registered >>
    /\ op' = "show_onboarding"
    /\ NoDashboard
    /\ UNCHANGED << app, learned_habits, fpTie, history >>

\* main() with registered true and "Reset Preferences" clicked
ResetPreferences ==
    /\ app = "Eterna"
    /\ registered
    /\ registered' = FALSE
    /\ op' = "reset_preferences"
    /\ form' = NoForm
    /\ NoDashboard
    /\ UNCHANGED << app, user_prefs, learned_habits, fpTie, history >>

\* main() with registered true and no click: show_dashboard() to its end.
\* The random "Savings" tile and the simulator expander only display.
ShowDashboard ==
    /\ app = "Eterna"
    /\ registered
    /\ \E h \in Hours :
        \E u \in generate_mock_usage(h) :
        \E carbon \in CarbonSaved(SumValues(u)) :
          LET r == get_ai_suggestions(u, user_prefs, h)
          IN  /\ hour' = h
              /\ usage' = u
              /\ total_usage' = SumValues(u)
              /\ outcome' = r.outcome
              /\ suggestions' = r.suggestions
              /\ co2_kg' = carbon
              /\ water_l' = WaterFromCarbon(carbon)
    /\ op' = "show_dashboard"
    /\ form' = NoForm
    /\ UNCHANGED << app, registered, user_prefs, learned_habits, fpTie, history >>

(***************************************************************************)
(* Eterna2.py: the Streamlit script                                        *)
(***************************************************************************)
\* Samples of the entries generate_usage_history draws for each hour of day.
MorningEntries ==
    { [AC |-> 180, Lights |-> 40, Appliances |-> 50],
      [AC |-> 250, Lights |-> 70, Appliances |-> 120] }
EveningEntries ==
    { [AC |-> 250, Lights |-> 60, Appliances |-> 50],
      [AC |-> 320, Lights |-> 90, Appliances |-> 120] }
NightEntries ==
    { [AC |-> 48, Lights |-> 10, Appliances |-> 50],
      [AC |-> 90, Lights |-> 10, Appliances |-> 50],
      [AC |-> 90, Lights |-> 30, Appliances |-> 120] }

EntriesAtHour(h) ==
    IF 6 <= h /\ h <= 8 THEN MorningEntries
    ELSE IF 18 <= h /\ h <= 22 THEN EveningEntries
    ELSE NightEntries

\* The generated list ends with hour 23 of the current day; the model keeps
\* its last MaxHistory entries.
HourOfEntry(i) == (24 * MaxHistory + 23 - MaxHistory + i) % 24

generate_usage_history ==
    { h \in [1 .. MaxHistory -> MorningEntries \cup EveningEntries \cup NightEntries] :
        \A i \in 1 .. MaxHistory : h[i] \in EntriesAtHour(HourOfEntry(i)) }

\* One run of main(): metrics of the current entry, then the habit update,
\* then the suggestions.  The "Simulate" button only displays.
Main ==
    /\ app = "Eterna2"
    /\ LET current == history[Len(history)]
           total == SumValues(current)
           habits == detect_usage_patterns(history, learned_habits, fpTie)
       IN  \E h \in Hours :
           \E co2 \in Co2Formatted(total) :
           \E water \in WaterFormatted(total) :
           \E savings \in PeakSavings(current) :
             LET r == get_smart_suggestions(current, habits, h, savings)
             IN  /\ hour' = h
                 /\ usage' = current
                 /\ total_usage' = total
                 /\ co2_kg' = co2
                 /\ water_l' = water
                 /\ learned_habits' = habits
                 /\ outcome' = r.outcome
                 /\ suggestions' = r.suggestions
    /\ op' = "main"
    /\ UNCHANGED << app, registered, user_prefs, form, fpTie, history >>

InitApp ==
    /\ app \in {"Eterna", "Eterna2"}
    /\ registered = FALSE
    /\ user_prefs = DEFAULT_PREFS
    /\ form = NoForm
    /\ learned_habits = EmptyDict
    /\ fpTie \in (IF app = "Eterna2" THEN [TieWindows -> BOOLEAN] ELSE {<< >>})
    /\ op = "init"
    /\ usage = EmptyDict
    /\ hour = 0
    /\ history \in (IF app = "Eterna2" THEN generate_usage_history ELSE {<< >>})
    /\ outcome = "ok"
    /\ suggestions = << >>
    /\ total_usage = 0
    /\ co2_kg = 0
    /\ water_l = 0

NextApp == ShowOnboarding \/ ResetPreferences \/ ShowDashboard \/ Main

SpecApp == InitApp /\ [][NextApp]_vars

(***************************************************************************)
(* Properties                                                              *)
(***************************************************************************)
IsAi == op = "get_ai_suggestions"
IsSmart == op = "get_smart_suggestions"
IsSuggest == IsAi \/ IsSmart

HasMsg(s, m) == \E i \in DOMAIN s : s[i].msg = m

HighAc == DictGet(learned_habits, "high_ac") = TRUE

AllZero(u) == DOMAIN u = Categories /\ \A c \in Categories : u[c] = 0

\* C1: for every valid usage snapshot, preferences, habit state and hour,
\* get_ai_suggestions and get_smart_suggestions return normally with a list
\* of at least one message.
C1_NonEmpty ==
    (IsSuggest /\ Valid(usage)) => (outcome = "ok" /\ Len(suggestions) >= 1)

\* get_smart_suggestions on a valid snapshot, off peak, no habit: only the
\* default keeps the list from being empty.
C1_Witness ==
    /\ IsSmart
    /\ Valid(usage)
    /\ ~HighAc
    /\ hour = 12
    /\ Len(suggestions) = 1

\* C4 as stated: with a snapshot of all zeros and no habit set, both
\* functions return exactly the "usage looks optimal" message.
C4_Original ==
    (IsSuggest /\ AllZero(usage) /\ ~HighAc) =>
        (outcome = "ok" /\ suggestions = << Msg(UsageOptimal, 0) >>)

\* C4 amended: with a snapshot of all zeros and no habit set neither
\* function fails; get_smart_suggestions returns exactly the "usage looks
\* optimal" message and get_ai_suggestions returns exactly the smart-plugs
\* filler.
C4_Amended ==
    (IsSuggest /\ AllZero(usage) /\ ~HighAc) =>
        /\ outcome = "ok"
        /\ IsSmart => suggestions = << Msg(UsageOptimal, 0) >>
        /\ IsAi => suggestions = << Msg(SmartPlugs, 0) >>

\* get_ai_suggestions on all zeros inside the morning window, eco mode on.
C4_Witness ==
    /\ IsAi
    /\ AllZero(usage)
    /\ ~HighAc
    /\ hour = 9
    /\ user_prefs.eco_mode
    /\ suggestions = << Msg(SmartPlugs, 0) >>

\* C5 as stated: a malformed snapshot (a category missing or a value
\* negative) ends both functions in an error and yields no list.
C5_MalformedRejected ==
    (IsSuggest /\ ~Valid(usage)) => (outcome # "ok" /\ suggestions = << >>)

\* C6 as stated: with appliance usage above 0.7 get_smart_suggestions emits
\* the delay-appliances message exactly for the hours 18..22.
C6_InclusiveWindow ==
    (IsSmart /\ "Appliances" \in DOMAIN usage /\ usage["Appliances"] > 70) =>
        (HasMsg(suggestions, PeakDelay) <=> (18 <= hour /\ hour <= 22))

\* C7: with AC <= 2.5 the result of get_ai_suggestions holds neither the
\* "Turn off AC" message nor the raise-set-point message.
C7_NoACRules ==
    (IsAi /\ "AC" \in DOMAIN usage /\ usage["AC"] <= 250) =>
        (~HasMsg(suggestions, TurnOffAC) /\ ~HasMsg(suggestions, IncreaseACTemp))

\* AC exactly 2.5 with a preferred temperature under 26: the boundary.
C7_Witness ==
    /\ IsAi
    /\ outcome = "ok"
    /\ "AC" \in DOMAIN usage
    /\ usage["AC"] = 250
    /\ user_prefs.ac_temp < 26
    /\ Len(suggestions) >= 1

\* The messages of a result that are not the filler.
RuleMessages(s) == { i \in DOMAIN s : s[i].msg # SmartPlugs }
FillerMessages(s) == { i \in DOMAIN s : s[i].msg = SmartPlugs }

\* C9: the result of get_ai_suggestions holds the smart-plugs filler exactly
\* when the rules before it produced fewer than 2 messages, once, and as
\* its last element.
C9_Filler ==
    (IsAi /\ outcome = "ok") =>
        /\ (FillerMessages(suggestions) # {}) <=>
               (Cardinality(RuleMessages(suggestions)) < 2)
        /\ FillerMessages(suggestions) \subseteq {Len(suggestions)}

\* One rule fired, so the filler follows it.
C9_Witness ==
    /\ IsAi
    /\ outcome = "ok"
    /\ Len(suggestions) = 2
    /\ suggestions[1].msg = EcoLighting
    /\ suggestions[2].msg = SmartPlugs

IsDetect == op = "detect_usage_patterns"

\* C2: once high_ac is set no call of detect_usage_patterns, with whatever
\* history, unsets it, and a call repeated with the history of the call
\* before it leaves the state as that call left it.
C2_Sticky ==
    [][ /\ HighAc => HighAc'
        /\ (IsDetect /\ IsDetect' /\ history' = history) =>
               learned_habits' = learned_habits ]_vars

\* The flag is set and the last call saw a window with a mean under 2.8.
C2_Witness ==
    /\ IsDetect
    /\ HighAc
    /\ Len(history) > 3
    /\ ACSum(LastThree(history)) < 840

\* C3 as stated: after detect_usage_patterns on a history of 3 or more
\* entries whose last 3 AC values have a mean above 2.8, high_ac is set.
C3_ThreeEntries ==
    (IsDetect /\ Len(history) >= 3 /\ ACSum(LastThree(history)) > 840) => HighAc

IsDashboard == op = "show_dashboard"
IsMain == op = "main"

\* C8 as stated: in both dashboards co2_kg = round(total_usage * 0.42, 2) and
\* water_l = co2_kg * 10.
C8_Original ==
    (IsDashboard \/ IsMain) =>
        /\ total_usage = SumValues(usage)
        /\ co2_kg \in RoundOutcomes(total_usage * 42, 100)
        /\ water_l = co2_kg * 10

\* C8 amended: in both dashboards co2_kg = round(total_usage * 0.42, 2); in
\* Eterna.py water_l = co2_kg * 10; in Eterna2.py water_l =
\* round(total_usage * 4.2, 2), within 0.05 of co2_kg * 10.
C8_Amended ==
    (IsDashboard \/ IsMain) =>
        /\ total_usage = SumValues(usage)
        /\ co2_kg \in RoundOutcomes(total_usage * 42, 100)
        /\ IsDashboard => water_l = co2_kg * 10
        /\ IsMain => /\ water_l \in RoundOutcomes(total_usage * 420, 100)
                     /\ water_l - co2_kg * 10 \in -5 .. 5

\* Eterna2.py shows a water figure that is not ten times its CO2 figure.
C8_Witness ==
    /\ IsMain
    /\ total_usage > 0
    /\ water_l # co2_kg * 10

\* C10: whenever registered is true the stored name is not empty; an
\* onboarding run whose form has an empty name changes neither registered
\* nor user_prefs; a reset sets registered to false and leaves user_prefs.
C10_Session ==
    /\ [](registered => user_prefs.name # "")
    /\ [][ /\ (op' = "show_onboarding" /\ form'.name = "") =>
                  (registered' = registered /\ user_prefs' = user_prefs)
           /\ op' = "reset_preferences" =>
                  (~registered' /\ user_prefs' = user_prefs) ]_vars

\* After a registration and a reset, a form submitted with an empty name:
\* the stored name of the earlier registration is still there.
C10_Witness ==
    /\ op = "show_onboarding"
    /\ form.submitted
    /\ form.name = ""
    /\ ~registered
    /\ user_prefs.name # ""

====
